---- MODULE Spec2Model ----
(***************************************************************************)
(* Model of the Sandkasten Python SDK (sdk/python/sandkasten): the         *)
(* exec_stream SSE parser of Session and the request/response operations   *)
(* of SandboxClient and Session.                                           *)
(***************************************************************************)
EXTENDS Integers, Sequences, FiniteSets, TLC

\* ------------------------------------------------------------------------
\* Bounds of the model
\* ------------------------------------------------------------------------
\* Lines the server sends on one stream under SpecStream.
MaxLines == 4
\* `chunk` events of a chunk...done transcript under SpecTranscript.
MaxChunks == 2
\* Calls one caller task makes, one after the other.
MaxCalls == 3

VARIABLES
    \* ---- Session.exec_stream (one iteration of the async generator) ----
    s_pc,        \* position of the generator
    s_sent,      \* HTTP requests sent by this exec_stream call
    s_status,    \* HTTP status of the streamed response, 0 before it is known
    s_open,      \* TRUE while the `async with ... as resp` block is entered
    event_type,  \* the local variable event_type of exec_stream
    yielded,     \* ExecChunk values handed to the consumer, in order
    received,    \* lines produced so far by resp.aiter_lines()
    s_outcome,   \* exception that ended the iteration, NoError if none
    mode,        \* what the server sends: "any" lines or a chunk..done "transcript"
    \* ---- calls of SandboxClient / Session operations, per caller task ----
    scenario,      \* "sequential": one caller; "concurrent": two callers;
                   \* "sessions", "files": one caller of the session-record
                   \* operations, of write and read
    pc,            \* position of the task's current call
    op,            \* the operation called
    arg,           \* its arguments
    sent,          \* HTTP requests the current call has sent
    resp,          \* the HTTP response the current call obtained, NoResponse if none
    outcome,       \* exception the current call raised, NoError if none
    result,        \* value the current call returned, NoResult if none
    handle,        \* the local file handle to_close of Session.upload
    stream,        \* the file-like object the caller gave to Session.upload
    calls,         \* calls the task has started
    after_destroy, \* the current call started after a destroy() had returned
    destroyed,     \* a destroy() of this Session has returned normally
    request,       \* the HTTP request the current call sent, NoRequest if none
    doc,           \* the document resp.json() gave the current call, NoValue if none
    value,         \* the decoded value the current call returned, NoValue if none
    files,         \* the server's files: path -> None or Some(bytes)
    written,       \* path -> Some(b) while the last write call to it returned
                   \* having sent b, None otherwise
    \* ---- `async with` blocks: a Session, sandbox_tools_for_workspace ----
    block,         \* position of the caller relative to the block
    manager,       \* the context manager of the block, NoManager outside one
    body_exc,      \* exception that left the block, NoError for a normal end
    destroys       \* DELETE requests for the session sent since the block began

streamVars == <<s_pc, s_sent, s_status, s_open, event_type, yielded, received,
                s_outcome, mode>>

callVars == <<scenario, pc, op, arg, sent, resp, outcome, result, handle, stream, calls,
              after_destroy, destroyed, request, doc, value, files, written>>

ctxVars == <<block, manager, body_exc, destroys>>

opVars == <<scenario, pc, op, arg, sent, resp, outcome, result, handle, stream, calls,
            after_destroy, destroyed, request, doc, value, files, written,
            block, manager, body_exc, destroys>>

vars == <<s_pc, s_sent, s_status, s_open, event_type, yielded, received,
          s_outcome, mode, scenario, pc, op, arg, sent, resp, outcome, result,
          handle, stream, calls, after_destroy, destroyed, request, doc, value, files,
          written,
          block, manager, body_exc, destroys>>

\* ------------------------------------------------------------------------
\* Exceptions
\* ------------------------------------------------------------------------
NoError == [type |-> "none", message |-> "", status_code |-> 0, response_body |-> ""]

Raised(type, message) ==
    [type |-> type, message |-> message, status_code |-> 0, response_body |-> ""]

\* httpx.HTTPStatusError keeps the response: its status code and its body.
StatusError(status, body) ==
    [type |-> "httpx.HTTPStatusError", message |-> "", status_code |-> status,
     response_body |-> body]

\* The direct base class of each exception class ("" above Exception).
BaseOf(cls) ==
    CASE cls = "SandkastenAPIError"      -> "SandkastenError"
      [] cls = "SandkastenStreamError"   -> "SandkastenError"
      [] cls = "SandkastenError"         -> "Exception"
      [] cls = "httpx.HTTPStatusError"   -> "httpx.HTTPError"
      [] cls = "httpx.TransportError"    -> "httpx.HTTPError"
      [] cls = "httpx.HTTPError"         -> "Exception"
      [] cls = "json.JSONDecodeError"    -> "ValueError"
      [] cls = "binascii.Error"          -> "ValueError"
      [] cls = "TypeError"               -> "Exception"
      [] cls = "ValueError"              -> "Exception"
      [] cls = "AttributeError"          -> "Exception"
      [] cls = "KeyError"                -> "Exception"
      [] cls = "FileNotFoundError"       -> "OSError"
      [] cls = "PermissionError"         -> "OSError"
      [] cls = "OSError"                 -> "Exception"
      [] cls = "asyncio.CancelledError"  -> "BaseException"
      [] cls = "Exception"               -> "BaseException"
      [] OTHER                           -> ""

RECURSIVE IsInstance(_, _)
IsInstance(cls, of) ==
    IF cls = "" THEN FALSE
    ELSE IF cls = of THEN TRUE
    ELSE IsInstance(BaseOf(cls), of)

\* ------------------------------------------------------------------------
\* HTTP responses
\* ------------------------------------------------------------------------
Statuses == {200, 302, 404, 500}
Bodies == {"json", "not json"}

\* httpx.Response.is_success
IsSuccess(status) == status \div 100 = 2

\* Faulty variant of RaiseForStatus: the status is never looked at.
NeverRaisesForStatus(status, body) == NoError

\* resp.raise_for_status(): NoError on 2xx, httpx.HTTPStatusError otherwise.
RaiseForStatus(status, body) ==
    IF IsSuccess(status) THEN NoError ELSE StatusError(status, body)

\* ------------------------------------------------------------------------
\* Server-sent lines and their JSON payloads
\* ------------------------------------------------------------------------
\* A decoded JSON object: `has` is its key set, the other fields the values
\* of the keys in `has`. kind "nonobject" is JSON that is no object (a
\* number, a list); kind "malformed" is text json.loads rejects.
Payload(kind, has, chunk, timestamp, exit_code, cwd, duration_ms, error) ==
    [kind |-> kind, has |-> has, chunk |-> chunk, timestamp |-> timestamp,
     exit_code |-> exit_code, cwd |-> cwd, duration_ms |-> duration_ms,
     error |-> error]

NoPayload == Payload("none", {}, "", 0, 0, "", 0, "")

ObjectPayloads ==
    { Payload("object", {"chunk", "timestamp"}, "hi", 1000, 0, "", 0, ""),
      Payload("object", {"chunk", "timestamp"}, "yo", 2000, 0, "", 0, ""),
      Payload("object", {"exit_code", "cwd", "duration_ms"}, "", 0, 1, "/tmp", 50, ""),
      Payload("object", {"error"}, "", 0, 0, "", 0, "Command failed"),
      Payload("object", {}, "", 0, 0, "", 0, "") }

Payloads ==
    ObjectPayloads \cup { Payload("nonobject", {}, "", 0, 0, "", 0, ""),
                          Payload("malformed", {}, "", 0, 0, "", 0, "") }

EventTypes == {"chunk", "done", "error", "ping"}

Line(kind, etype, payload) == [kind |-> kind, etype |-> etype, payload |-> payload]

EventLine(t) == Line("event", t, NoPayload)
DataLine(p) == Line("data", "", p)

\* kind "blank": not line.strip(); "event": starts with "event: ";
\* "data": starts with "data: "; "other": none of these (a comment, "id: 7").
Lines ==
    { Line("blank", "", NoPayload), Line("other", "", NoPayload) }
    \cup { EventLine(t) : t \in EventTypes }
    \cup { DataLine(p) : p \in Payloads }

\* dict.get(key, default)
Get(data, key, default) == IF key \in data.has THEN data[key] ELSE default

\* ------------------------------------------------------------------------
\* ExecChunk
\* ------------------------------------------------------------------------
ExecChunk(output, timestamp, done, exit_code, cwd, duration_ms) ==
    [output |-> output, timestamp |-> timestamp, done |-> done,
     exit_code |-> exit_code, cwd |-> cwd, duration_ms |-> duration_ms]

\* What one pass of the loop body does: the new event_type, the chunk it
\* yields (a sequence of length 0 or 1) and the exception it raises.
StepResult(et, yield, raise) == [event_type |-> et, yield |-> yield, raise |-> raise]

\* Faulty variant of OnData: an `error` event is handed on as an ordinary chunk.
OnDataErrorAsChunk(et, data) ==
    IF et \in {"chunk", "done", "error"} /\ data.kind # "object"
    THEN StepResult(et, <<>>, Raised("AttributeError", "get"))
    ELSE IF et \in {"chunk", "error"}
    THEN StepResult(et, <<ExecChunk(Get(data, "chunk", ""), Get(data, "timestamp", 0),
                                    FALSE, 0, "", 0)>>, NoError)
    ELSE IF et = "done"
    THEN StepResult(et, <<ExecChunk("", 0, TRUE, Get(data, "exit_code", 0),
                                    Get(data, "cwd", ""), Get(data, "duration_ms", 0))>>,
                    NoError)
    ELSE StepResult(et, <<>>, NoError)

\* Faulty variant of OnData: the terminal chunk is built like an intermediate one.
OnDataDoneAsChunk(et, data) ==
    IF et \in {"chunk", "done", "error"} /\ data.kind # "object"
    THEN StepResult(et, <<>>, Raised("AttributeError", "get"))
    ELSE IF et \in {"chunk", "done"}
    THEN StepResult(et, <<ExecChunk(Get(data, "chunk", ""), Get(data, "timestamp", 0),
                                    FALSE, 0, "", 0)>>, NoError)
    ELSE IF et = "error"
    THEN StepResult(et, <<>>,
                    Raised("SandkastenStreamError", Get(data, "error", "Unknown error")))
    ELSE StepResult(et, <<>>, NoError)

\* Faulty variant of OnData: a data line of an unrecognised event type fails
\* the stream.
OnDataUnknownRaises(et, data) ==
    IF et \in {"chunk", "done", "error"} /\ data.kind # "object"
    THEN StepResult(et, <<>>, Raised("AttributeError", "get"))
    ELSE IF et = "chunk"
    THEN StepResult(et, <<ExecChunk(Get(data, "chunk", ""), Get(data, "timestamp", 0),
                                    FALSE, 0, "", 0)>>, NoError)
    ELSE IF et = "done"
    THEN StepResult(et, <<ExecChunk("", 0, TRUE, Get(data, "exit_code", 0),
                                    Get(data, "cwd", ""), Get(data, "duration_ms", 0))>>,
                    NoError)
    ELSE IF et = "error"
    THEN StepResult(et, <<>>,
                    Raised("SandkastenStreamError", Get(data, "error", "Unknown error")))
    ELSE StepResult(et, <<>>, Raised("SandkastenStreamError", "Unknown event"))

\* The dispatch on event_type of a decoded data line. data.get on a JSON
\* value that is no object raises AttributeError.
OnData(et, data) ==
    IF et \in {"chunk", "done", "error"} /\ data.kind # "object"
    THEN StepResult(et, <<>>, Raised("AttributeError", "get"))
    ELSE IF et = "chunk"
    THEN StepResult(et, <<ExecChunk(Get(data, "chunk", ""), Get(data, "timestamp", 0),
                                    FALSE, 0, "", 0)>>, NoError)
    ELSE IF et = "done"
    THEN StepResult(et, <<ExecChunk("", 0, TRUE, Get(data, "exit_code", 0),
                                    Get(data, "cwd", ""), Get(data, "duration_ms", 0))>>,
                    NoError)
    ELSE IF et = "error"
    THEN StepResult(et, <<>>,
                    Raised("SandkastenStreamError", Get(data, "error", "Unknown error")))
    ELSE StepResult(et, <<>>, NoError)

\* Faulty variant of Step: the event type is forgotten once its data line
\* was handled.
StepDataClears(et, line) ==
    IF line.kind = "blank" THEN StepResult(et, <<>>, NoError)
    ELSE IF line.kind = "event" THEN StepResult(line.etype, <<>>, NoError)
    ELSE IF line.kind = "data"
    THEN IF line.payload.kind = "malformed"
         THEN StepResult(et, <<>>, Raised("json.JSONDecodeError", "Expecting value"))
         ELSE LET r == OnData(et, line.payload) IN StepResult("", r.yield, r.raise)
    ELSE StepResult(et, <<>>, NoError)

\* Faulty variant of Step: a blank line ends the event and resets its type.
StepBlankResets(et, line) ==
    IF line.kind = "blank" THEN StepResult("", <<>>, NoError)
    ELSE IF line.kind = "event" THEN StepResult(line.etype, <<>>, NoError)
    ELSE IF line.kind = "data"
    THEN IF line.payload.kind = "malformed"
         THEN StepResult(et, <<>>, Raised("json.JSONDecodeError", "Expecting value"))
         ELSE OnData(et, line.payload)
    ELSE StepResult(et, <<>>, NoError)

\* One pass of the `async for line` body for `line`, with event_type = et.
Step(et, line) ==
    IF line.kind = "blank" THEN StepResult(et, <<>>, NoError)
    ELSE IF line.kind = "event" THEN StepResult(line.etype, <<>>, NoError)
    ELSE IF line.kind = "data"
    THEN IF line.payload.kind = "malformed"
         THEN StepResult(et, <<>>, Raised("json.JSONDecodeError", "Expecting value"))
         ELSE OnData(et, line.payload)
    ELSE StepResult(et, <<>>, NoError)

\* ------------------------------------------------------------------------
\* What the server may send next
\* ------------------------------------------------------------------------
\* lines is a prefix of (event: chunk, data: object)^n event: done, data: object
\* with n <= MaxChunks.
IsTranscriptPrefix(lines) ==
    /\ \A i \in 1..Len(lines) :
          IF i % 2 = 1
          THEN /\ lines[i].kind = "event"
               /\ lines[i].etype \in {"chunk", "done"}
               /\ \A j \in 1..(i - 1) : lines[j].kind = "event" => lines[j].etype = "chunk"
          ELSE /\ lines[i].kind = "data"
               /\ lines[i].payload \in ObjectPayloads
    /\ Cardinality({i \in 1..Len(lines) : lines[i] = EventLine("chunk")}) <= MaxChunks

\* lines is a whole transcript: n chunk events, then one done event.
IsTranscript(lines) ==
    /\ IsTranscriptPrefix(lines)
    /\ Len(lines) >= 2
    /\ Len(lines) % 2 = 0
    /\ lines[Len(lines) - 1] = EventLine("done")

MaySend(line) ==
    IF mode = "transcript"
    THEN /\ ~IsTranscript(received)
         /\ IsTranscriptPrefix(Append(received, line))
    ELSE Len(received) < MaxLines

\* ------------------------------------------------------------------------
\* Session.exec_stream
\* ------------------------------------------------------------------------
StreamInit(m) ==
    /\ s_pc = "idle"
    /\ s_sent = 0
    /\ s_status = 0
    /\ s_open = FALSE
    /\ event_type = ""
    /\ yielded = <<>>
    /\ received = <<>>
    /\ s_outcome = NoError
    /\ mode = m

\* The first __anext__: the generator enters `async with ...stream("POST", ...)`,
\* which sends the request.
ExecStreamCall ==
    /\ s_pc = "idle"
    /\ s_pc' = "awaiting"
    /\ s_sent' = s_sent + 1
    /\ UNCHANGED <<s_status, s_open, event_type, yielded, received, s_outcome, mode>>
    /\ UNCHANGED opVars

\* No response is obtained: entering the stream context raises.
StreamTransportError ==
    /\ s_pc = "awaiting"
    /\ s_pc' = "raised"
    /\ s_outcome' = Raised("httpx.TransportError", "connect")
    /\ UNCHANGED <<s_sent, s_status, s_open, event_type, yielded, received, mode>>
    /\ UNCHANGED opVars

\* The response headers arrive; resp.raise_for_status(); event_type = "".
StreamResponse(status, body) ==
    /\ s_pc = "awaiting"
    /\ s_status' = status
    /\ LET err == RaiseForStatus(status, body) IN
         IF err # NoError
         THEN /\ s_pc' = "raised"
              /\ s_outcome' = err
              /\ s_open' = FALSE
              /\ UNCHANGED event_type
         ELSE /\ s_pc' = "streaming"
              /\ s_open' = TRUE
              /\ event_type' = ""
              /\ UNCHANGED s_outcome
    /\ UNCHANGED <<s_sent, yielded, received, mode>>
    /\ UNCHANGED opVars

\* resp.aiter_lines() produces `line` and the loop body runs on it, up to
\* the next yield, raise or request for a further line.
ServerLine(line) ==
    /\ s_pc = "streaming"
    /\ MaySend(line)
    /\ received' = Append(received, line)
    /\ LET r == Step(event_type, line) IN
         /\ event_type' = r.event_type
         /\ yielded' = yielded \o r.yield
         /\ s_outcome' = r.raise
         /\ s_pc' = IF r.raise # NoError THEN "raised"
                    ELSE IF r.yield # <<>> THEN "suspended"
                    ELSE "streaming"
         /\ s_open' = (r.raise = NoError)
    /\ UNCHANGED <<s_sent, s_status, mode>>
    /\ UNCHANGED opVars

\* The consumer asks for the next value: the generator resumes after its yield.
ConsumerNext ==
    /\ s_pc = "suspended"
    /\ s_pc' = "streaming"
    /\ UNCHANGED <<s_sent, s_status, s_open, event_type, yielded, received, s_outcome, mode>>
    /\ UNCHANGED opVars

\* Faulty variant of ConsumerClose: the generator is dropped without
\* leaving its `async with` block.
ConsumerCloseLeak ==
    /\ s_pc = "suspended"
    /\ s_pc' = "closed"
    /\ UNCHANGED <<s_sent, s_status, s_open, event_type, yielded, received, s_outcome,
                   mode>>
    /\ UNCHANGED opVars

\* The consumer closes the generator at a yield: GeneratorExit unwinds the
\* `async with` block.
ConsumerClose ==
    /\ s_pc = "suspended"
    /\ s_pc' = "closed"
    /\ s_open' = FALSE
    /\ UNCHANGED <<s_sent, s_status, event_type, yielded, received, s_outcome, mode>>
    /\ UNCHANGED opVars

\* resp.aiter_lines() is exhausted: the loop and the generator end.
StreamEnd ==
    /\ s_pc = "streaming"
    /\ s_pc' = "ended"
    /\ s_open' = FALSE
    /\ UNCHANGED <<s_sent, s_status, event_type, yielded, received, s_outcome, mode>>
    /\ UNCHANGED opVars

\* The connection breaks while a line is awaited: aiter_lines() raises.
StreamReadError ==
    /\ s_pc = "streaming"
    /\ s_pc' = "raised"
    /\ s_outcome' = Raised("httpx.TransportError", "read")
    /\ s_open' = FALSE
    /\ UNCHANGED <<s_sent, s_status, event_type, yielded, received, mode>>
    /\ UNCHANGED opVars

\* ------------------------------------------------------------------------
\* Properties of Session.exec_stream
\* ------------------------------------------------------------------------
\* The step from the current state processes a data line while the tracked
\* event type is `error`.
ErrorDataStep ==
    /\ s_pc = "streaming"
    /\ event_type = "error"
    /\ Len(received') = Len(received) + 1
    /\ received'[Len(received')].kind = "data"

LastPayload == received[Len(received)].payload

Terminals == {i \in 1..Len(yielded) : yielded[i].done}

\* C1 as claimed: every data line processed while the tracked event type is
\* `error` makes the iteration fail with SandkastenStreamError carrying the
\* payload's `error` message, and no chunk is yielded from then on.
C1_AnyErrorDataRaisesStreamError ==
    [][ /\ ErrorDataStep =>
            /\ s_pc' = "raised"
            /\ s_outcome'.type = "SandkastenStreamError"
            /\ "error" \in LastPayload'.has => s_outcome'.message = LastPayload'.error
            /\ yielded' = yielded
        /\ s_pc = "raised" => yielded' = yielded ]_vars

\* C1, amended: a data line processed while the tracked event type is `error`
\* always ends the iteration with an exception and yields nothing, and the
\* chunks yielded before stay; the exception is SandkastenStreamError with the
\* payload's `error` message ("Unknown error" when the object has none) when
\* the payload is a JSON object, json.JSONDecodeError when it is not JSON and
\* AttributeError when it is JSON but no object.
C1_ErrorEventFails ==
    [][ /\ ErrorDataStep =>
            /\ s_pc' = "raised"
            /\ yielded' = yielded
            /\ LastPayload'.kind = "object" =>
                  /\ s_outcome'.type = "SandkastenStreamError"
                  /\ s_outcome'.message =
                        (IF "error" \in LastPayload'.has THEN LastPayload'.error
                                                         ELSE "Unknown error")
            /\ LastPayload'.kind = "malformed" =>
                  s_outcome'.type = "json.JSONDecodeError"
            /\ LastPayload'.kind = "nonobject" => s_outcome'.type = "AttributeError"
        /\ s_pc = "raised" => (yielded' = yielded /\ s_pc' = "raised") ]_vars

\* C1 witness: an error event with a message arrives after a chunk was yielded.
C1_Witness ==
    /\ s_pc = "raised"
    /\ s_outcome = Raised("SandkastenStreamError", "Command failed")
    /\ Len(yielded) = 1
    /\ received[Len(received)].kind = "data"

\* C2 as claimed: a terminal chunk (done = TRUE) is always the last value
\* yielded; nothing is yielded after it.
C2_TerminalChunkIsLast ==
    \A i \in Terminals : i = Len(yielded)

\* C3 as claimed: an iteration that ran to its end without raising has
\* yielded exactly one chunk with done = TRUE.
C3_EndedHasOneTerminal ==
    s_pc = "ended" => Cardinality(Terminals) = 1

\* C4: after a transcript of n chunk events and one done event the client has
\* yielded n + 1 values in transcript order: the first n with done = FALSE and
\* the output and timestamp of their payloads, the last with done = TRUE,
\* empty output and the exit_code, cwd and duration_ms of the done payload.
C4_TranscriptYieldsInOrder ==
    IsTranscript(received) =>
        /\ Len(yielded) = Len(received) \div 2
        /\ \A k \in 1..Len(yielded) :
              LET p == received[2 * k].payload
                  c == yielded[k]
              IN  IF k < Len(yielded)
                  THEN /\ c.done = FALSE
                       /\ "chunk" \in p.has => c.output = p.chunk
                       /\ "timestamp" \in p.has => c.timestamp = p.timestamp
                  ELSE /\ c.done = TRUE
                       /\ c.output = ""
                       /\ "exit_code" \in p.has => c.exit_code = p.exit_code
                       /\ "cwd" \in p.has => c.cwd = p.cwd
                       /\ "duration_ms" \in p.has => c.duration_ms = p.duration_ms

\* C4 witness: chunk "hi", chunk "yo", done has been consumed to the end.
C4_Witness ==
    /\ s_pc = "ended"
    /\ IsTranscript(received)
    /\ Len(yielded) = 3
    /\ yielded[1].output = "hi" /\ yielded[1].timestamp = 1000
    /\ yielded[2].output = "yo" /\ yielded[2].timestamp = 2000
    /\ yielded[3] = ExecChunk("", 0, TRUE, 1, "/tmp", 50)

\* C6: SandkastenStreamError occurs only after a 2xx status; on a non-2xx
\* status the call fails with httpx.HTTPStatusError for that status before a
\* line is read or a chunk yielded; and SandkastenStreamError is neither the
\* API failure (HTTPStatusError) nor a transport failure.
C6_StreamErrorOnlyAfter2xx ==
    /\ s_outcome.type = "SandkastenStreamError" =>
          /\ IsSuccess(s_status)
          /\ ~IsInstance(s_outcome.type, "httpx.HTTPError")
    /\ (s_status # 0 /\ ~IsSuccess(s_status)) =>
          /\ s_pc = "raised"
          /\ s_outcome.type = "httpx.HTTPStatusError"
          /\ s_outcome.status_code = s_status
          /\ received = <<>>
          /\ yielded = <<>>
    /\ s_status = 0 => (received = <<>> /\ yielded = <<>>)

\* C6 witness: a stream error raised on a 200 response.
C6_Witness ==
    /\ s_outcome.type = "SandkastenStreamError"
    /\ s_status = 200

\* C12: when the consumer closes or abandons the iteration, the streamed
\* response is released, no exception reaches the consumer, and the one
\* request of the call stays the only one (no cancel request is sent).
C12_CloseReleasesQuietly ==
    s_pc = "closed" =>
        /\ ~s_open
        /\ s_outcome = NoError
        /\ s_sent = 1

\* C12 witness: the iteration was closed after a chunk and before any
\* terminal chunk.
C12_Witness ==
    /\ s_pc = "closed"
    /\ Len(yielded) >= 1
    /\ Terminals = {}
    /\ ~s_open

\* ------------------------------------------------------------------------
\* Operations of SandboxClient and Session
\* ------------------------------------------------------------------------
Tasks == {"t1", "t2"}

ClientOps ==
    {"create_session", "get_session", "list_sessions", "list_workspaces",
     "delete_workspace"}

SessionOps ==
    {"exec", "exec_stream", "write", "read", "upload", "stats", "info", "destroy"}

Ops == ClientOps \cup SessionOps

ActiveTasks ==
    IF scenario = "concurrent" THEN Tasks
    ELSE IF scenario \in {"sequential", "sessions", "files", "context"} THEN {"t1"}
    ELSE {}

\* The operations the callers of a scenario use.
AllowedOps ==
    CASE scenario = "concurrent" -> {"exec", "destroy"}
      [] scenario = "sessions"   -> {"create_session", "get_session", "list_sessions",
                                     "list_workspaces", "info"}
      [] scenario = "files"      -> {"write", "read"}
      [] OTHER                   -> Ops

Cmds == {"pwd", "ls"}

\* The `file` argument of upload: a path to a regular file, a path that is
\* no file, an open stream with a name attribute, an open stream without.
FileKinds == {"path_file", "path_missing", "stream_named", "stream_unnamed"}

Arg(cmd, file, filename) == [cmd |-> cmd, file |-> file, filename |-> filename]

NoArg == Arg("", "", "")

NoResponse == [status |-> 0, body |-> ""]

Result(type, output, chunks) == [type |-> type, output |-> output, chunks |-> chunks]

NoResult == Result("none", "", <<>>)

\* The type of the value each operation returns.
ResultType(o) ==
    CASE o \in {"create_session", "get_session"} -> "Session"
      [] o = "list_sessions"                     -> "list[SessionInfo]"
      [] o = "list_workspaces"                   -> "list[dict]"
      [] o = "exec"                              -> "ExecResult"
      [] o = "exec_stream"                       -> "ExecChunk*"
      [] o = "read"                              -> "ReadResult"
      [] o = "upload"                            -> "list[str]"
      [] o = "stats"                             -> "SessionStats"
      [] o = "info"                              -> "SessionInfo"
      [] OTHER                                   -> "None"

\* The operations that decode the response body with resp.json().
Decodes(o) ==
    o \in {"create_session", "list_sessions", "list_workspaces", "exec", "read",
           "upload", "stats", "info"}

\* The `output` the remote shell reports for a command.
ServerOutput(cmd) == IF cmd = "pwd" THEN "/workspace" ELSE "a.txt"

\* Streams the server may answer an exec_stream call with.
StreamSamples ==
    { <<>>,
      <<EventLine("chunk"),
        DataLine(Payload("object", {"chunk", "timestamp"}, "hi", 1000, 0, "", 0, "")),
        EventLine("done"),
        DataLine(Payload("object", {"exit_code", "cwd", "duration_ms"}, "", 0, 1, "/tmp",
                         50, ""))>>,
      <<EventLine("error"),
        DataLine(Payload("object", {"error"}, "", 0, 0, "", 0, "Command failed"))>> }

\* The whole `async for` loop of exec_stream on `lines`, consumed to the end.
RECURSIVE RunFrom(_, _, _)
RunFrom(et, lines, acc) ==
    IF lines = <<>> THEN [yielded |-> acc, raise |-> NoError]
    ELSE LET r == Step(et, Head(lines)) IN
         IF r.raise # NoError THEN [yielded |-> acc, raise |-> r.raise]
         ELSE RunFrom(r.event_type, Tail(lines), acc \o r.yield)

RunStream(lines) == RunFrom("", lines, <<>>)

\* ------------------------------------------------------------------------
\* Decoded response documents and the values the operations build from them
\* ------------------------------------------------------------------------
\* Python's None and a present value: the two cases of an Optional field.
None == {}

Some(v) == {v}

\* `x or None`: a falsy value (None, the empty string) becomes None.
OrNone(x) == IF x = Some("") THEN None ELSE x

\* Most records a listing response holds.
MaxRecords == 2

SessionIds == {"s1", "s2"}

RequiredKeys == {"id", "image", "status", "cwd", "created_at", "expires_at"}

OptionalKeys == {"workspace_id", "container_id", "last_activity"}

\* A session record as resp.json() returns it: a dict with the key set
\* `has`; a JSON null is None, a JSON string s is Some(s).
SessionRecord(has, id, workspace_id) ==
    [type |-> "dict", has |-> has, id |-> id, image |-> "python",
     status |-> "running", cwd |-> "/workspace",
     created_at |-> "2024-01-01T00:00:00Z", expires_at |-> "2024-01-01T01:00:00Z",
     workspace_id |-> workspace_id, container_id |-> Some("c1"),
     last_activity |-> Some("2024-01-01T00:30:00Z")]

SessionRecords ==
    { SessionRecord(RequiredKeys \cup opt, id, ws) :
          opt \in SUBSET OptionalKeys, id \in SessionIds,
          ws \in {None, Some(""), Some("ws-1")} }
    \cup { SessionRecord((RequiredKeys \ {"image"}) \cup OptionalKeys, "s1", Some("ws-1")) }

\* Records whose optional fields are present as the empty string.
EmptyStringRecords ==
    { [SessionRecord(RequiredKeys \cup OptionalKeys, "s1", ws)
          EXCEPT !.container_id = c, !.last_activity = l] :
          ws \in {None, Some(""), Some("ws-1")},
          c \in {Some(""), Some("c1")}, l \in {Some(""), Some("2024-01-01T00:30:00Z")} }

\* The records of a listing: list_sessions reads no workspace_id.
ListedRecords == { r \in SessionRecords : r.workspace_id = Some("ws-1") }

WorkspaceRecords ==
    { [type |-> "dict", has |-> has, id |-> id, size_mb |-> 3] :
          has \in {{"id"}, {"id", "size_mb"}}, id \in {"ws-1", "ws-2"} }

\* A JSON array decoded by resp.json().
List(items) == [type |-> "list", items |-> items]

SeqsUpTo(S, n) == UNION { [1..k -> S] : k \in 0..n }

NoValue == [type |-> "none"]

\* Session(client, id)
SessionObject(id) == [type |-> "Session", id |-> id]

SessionInfo(id, image, status, cwd, created_at, expires_at, workspace_id, container_id, last_activity) ==
    [type |-> "SessionInfo", id |-> id, image |-> image, status |-> status, cwd |-> cwd,
     created_at |-> created_at, expires_at |-> expires_at, workspace_id |-> workspace_id,
     container_id |-> container_id, last_activity |-> last_activity]

Decoded(v) == [raise |-> NoError, value |-> v]

Failed(err) == [raise |-> err, value |-> NoValue]

\* Faulty variant of ParseSessionInfo: an absent optional field becomes the
\* empty string.
ParseSessionInfoEmptyString(data) ==
    IF data.type # "dict" THEN Failed(Raised("TypeError", "list indices must be integers"))
    ELSE IF RequiredKeys \ data.has # {} THEN Failed(Raised("KeyError", "required field"))
    ELSE Decoded(SessionInfo(data.id, data.image, data.status, data.cwd, data.created_at,
                             data.expires_at,
                             Get(data, "workspace_id", Some("")),
                             Get(data, "container_id", Some("")),
                             Get(data, "last_activity", Some(""))))

\* Faulty variant of ParseSessionInfo: workspace_id is read like the other
\* optional fields, without `or None`.
ParseSessionInfoKeepsEmpty(data) ==
    IF data.type # "dict" THEN Failed(Raised("TypeError", "list indices must be integers"))
    ELSE IF RequiredKeys \ data.has # {} THEN Failed(Raised("KeyError", "required field"))
    ELSE Decoded(SessionInfo(data.id, data.image, data.status, data.cwd, data.created_at,
                             data.expires_at,
                             Get(data, "workspace_id", None),
                             Get(data, "container_id", None),
                             Get(data, "last_activity", None)))

\* _parse_session_info(data)
ParseSessionInfo(data) ==
    IF data.type # "dict" THEN Failed(Raised("TypeError", "list indices must be integers"))
    ELSE IF RequiredKeys \ data.has # {} THEN Failed(Raised("KeyError", "required field"))
    ELSE Decoded(SessionInfo(data.id, data.image, data.status, data.cwd, data.created_at,
                             data.expires_at,
                             OrNone(Get(data, "workspace_id", None)),
                             Get(data, "container_id", None),
                             Get(data, "last_activity", None)))

\* One element of the list comprehension of list_sessions: every field is
\* read with s[...], and workspace_id is left at its default.
ListSessionsItem(s) ==
    IF (RequiredKeys \cup {"container_id", "last_activity"}) \ s.has # {}
    THEN Failed(Raised("KeyError", "field"))
    ELSE Decoded(SessionInfo(s.id, s.image, s.status, s.cwd, s.created_at, s.expires_at,
                             None, s.container_id, s.last_activity))

\* The decoding of list_sessions: data.get("sessions", []) on the document.
ListSessionsDecode(data) ==
    IF data.type # "dict"
    THEN Failed(Raised("AttributeError", "'list' object has no attribute 'get'"))
    ELSE LET ss == Get(data, "sessions", <<>>)
             bad == { i \in 1..Len(ss) : ListSessionsItem(ss[i]).raise # NoError }
         IN  IF bad # {}
             THEN ListSessionsItem(ss[CHOOSE i \in bad : \A j \in bad : i <= j])
             ELSE Decoded(List([i \in 1..Len(ss) |-> ListSessionsItem(ss[i]).value]))

\* The decoding of list_workspaces: the dicts are returned as they came.
ListWorkspacesDecode(data) ==
    IF data.type # "dict"
    THEN Failed(Raised("AttributeError", "'list' object has no attribute 'get'"))
    ELSE Decoded(List(Get(data, "workspaces", <<>>)))

\* Faulty variant of CreateSessionDecode: the Session is bound to a fixed id.
CreateSessionDecodeFixedId(data) ==
    IF data.type # "dict" THEN Failed(Raised("TypeError", "list indices must be integers"))
    ELSE IF "id" \notin data.has THEN Failed(Raised("KeyError", "id"))
    ELSE Decoded(SessionObject("s1"))

\* The decoding of create_session: Session(self, data["id"]).
CreateSessionDecode(data) ==
    IF data.type # "dict" THEN Failed(Raised("TypeError", "list indices must be integers"))
    ELSE IF "id" \notin data.has THEN Failed(Raised("KeyError", "id"))
    ELSE Decoded(SessionObject(data.id))

\* ------------------------------------------------------------------------
\* File contents: bytes, UTF-8 and base64
\* ------------------------------------------------------------------------
\* Longest byte string written.
MaxBytes == 3

ByteValues == {65, 255}

\* Code points of the characters of a written str: "A" and "é".
CodePoints == {65, 233}

Bytes == SeqsUpTo(ByteValues, MaxBytes)

\* The `content` argument of write: bytes, or a str of at most one character.
BytesContent(data) == [kind |-> "bytes", data |-> data]

StrContent(data) == [kind |-> "str", data |-> data]

Contents ==
    { BytesContent(b) : b \in Bytes } \cup { StrContent(s) : s \in SeqsUpTo(CodePoints, 1) }

\* str.encode("utf-8") for code points below 2048.
RECURSIVE Utf8(_)
Utf8(s) ==
    IF s = <<>> THEN <<>>
    ELSE LET c == Head(s) IN
         (IF c < 128 THEN <<c>> ELSE <<192 + (c \div 64), 128 + (c % 64)>>)
             \o Utf8(Tail(s))

\* The padding character "=" of base64; the other characters are written
\* as their index 0..63 in the alphabet.
Pad == 64

\* base64.b64encode(b).decode("ascii")
RECURSIVE B64Encode(_)
B64Encode(b) ==
    IF Len(b) = 0 THEN <<>>
    ELSE IF Len(b) = 1
    THEN LET n == b[1] * 65536 IN <<n \div 262144, (n \div 4096) % 64, Pad, Pad>>
    ELSE IF Len(b) = 2
    THEN LET n == b[1] * 65536 + b[2] * 256 IN
         <<n \div 262144, (n \div 4096) % 64, (n \div 64) % 64, Pad>>
    ELSE LET n == b[1] * 65536 + b[2] * 256 + b[3] IN
         <<n \div 262144, (n \div 4096) % 64, (n \div 64) % 64, n % 64>>
             \o B64Encode(SubSeq(b, 4, Len(b)))

RECURSIVE B64DecodeGroups(_)
B64DecodeGroups(s) ==
    IF s = <<>> THEN <<>>
    ELSE LET n == s[1] * 262144 + s[2] * 4096
                  + (IF s[3] = Pad THEN 0 ELSE s[3]) * 64
                  + (IF s[4] = Pad THEN 0 ELSE s[4])
         IN  (IF s[3] = Pad THEN <<n \div 65536>>
              ELSE IF s[4] = Pad THEN <<n \div 65536, (n \div 256) % 256>>
              ELSE <<n \div 65536, (n \div 256) % 256, n % 256>>)
                 \o B64DecodeGroups(SubSeq(s, 5, Len(s)))

\* A character outside the base64 alphabet, such as "!".
NonAlphabet == 65

IsAlphabet(c) == c # NonAlphabet

\* base64.b64decode(s) with its default validate=False: the characters
\* outside the alphabet are discarded, then binascii.Error is raised when
\* the padding of what is left is wrong.
B64Decode(s) ==
    LET kept == SelectSeq(s, IsAlphabet) IN
    IF Len(kept) % 4 # 0 THEN Failed(Raised("binascii.Error", "Incorrect padding"))
    ELSE Decoded(B64DecodeGroups(kept))

\* What write sends for `content`: a str is encoded as UTF-8 first.
ContentBytes(content) ==
    IF content.kind = "str" THEN Utf8(content.data) ELSE content.data

Take(s, n) == IF n < Len(s) THEN SubSeq(s, 1, n) ELSE s

ReadResult(content, path, truncated) ==
    [type |-> "ReadResult", content |-> content, path |-> path, truncated |-> truncated]

\* Faulty variant of ReadDecode: the content is returned as it came, still
\* base64 text.
ReadDecodeRaw(data, path) ==
    IF data.type # "dict" THEN Failed(Raised("TypeError", "list indices must be integers"))
    ELSE IF "content_base64" \notin data.has THEN Failed(Raised("KeyError", "content_base64"))
    ELSE Decoded(ReadResult(data.content_base64, Get(data, "path", path),
                            Get(data, "truncated", FALSE)))

\* Faulty variant of ReadDecode: the server's truncation flag is not read.
ReadDecodeNeverTruncated(data, path) ==
    IF data.type # "dict" THEN Failed(Raised("TypeError", "list indices must be integers"))
    ELSE IF "content_base64" \notin data.has THEN Failed(Raised("KeyError", "content_base64"))
    ELSE LET c == B64Decode(data.content_base64) IN
         IF c.raise # NoError THEN c
         ELSE Decoded(ReadResult(c.value, Get(data, "path", path), FALSE))

\* The decoding of read: b64decode(data["content_base64"]), with the
\* requested path and False where the document names none.
ReadDecode(data, path) ==
    IF data.type # "dict" THEN Failed(Raised("TypeError", "list indices must be integers"))
    ELSE IF "content_base64" \notin data.has THEN Failed(Raised("KeyError", "content_base64"))
    ELSE LET c == B64Decode(data.content_base64) IN
         IF c.raise # NoError THEN c
         ELSE Decoded(ReadResult(c.value, Get(data, "path", path),
                                 Get(data, "truncated", FALSE)))

\* ------------------------------------------------------------------------
\* Arguments, requests and response documents of the operations
\* ------------------------------------------------------------------------
\* The id the Session the callers use is bound to (self._id).
SessionId == "s1"

\* The workspace_id arguments given to sandbox_tools_for_workspace.
WorkspaceIds == {"", "ws-1"}

Paths == {"/a", "/b"}

CreateArg(image, ttl_seconds, workspace_id) ==
    [image |-> image, ttl_seconds |-> ttl_seconds, workspace_id |-> workspace_id]

WriteArg(path, content) == [path |-> path, content |-> content]

ReadArg(path, max_bytes) == [path |-> path, max_bytes |-> max_bytes]

\* The arguments the callers of the scenario pass to operation o. In the
\* "files" scenario every content is written to "/a", one content to "/b".
ArgsOf(o) ==
    CASE o \in {"exec", "exec_stream"} -> {Arg(c, "", "") : c \in Cmds}
      [] o = "upload" -> {Arg("", f, n) : f \in FileKinds, n \in {"", "f.txt"}}
      [] o = "create_session" ->
            IF scenario = "sessions"
            THEN {CreateArg(i, ttl, ws) : i \in {"python", "node"},
                                          ttl \in {None, Some(0), Some(60)},
                                          ws \in {None, Some(""), Some("ws-1")}}
            ELSE IF scenario = "context"
            THEN {CreateArg("python", ttl, Some(w)) : ttl \in {None, Some(60)},
                                                      w \in WorkspaceIds}
            ELSE {CreateArg("python", None, None)}
      [] o = "get_session" ->
            {[session_id |-> i] : i \in (IF scenario = "sessions" THEN SessionIds
                                         ELSE {SessionId})}
      [] o = "delete_workspace" -> {[workspace_id |-> "ws-1"]}
      [] o = "write" ->
            IF scenario = "files"
            THEN {WriteArg("/a", c) : c \in Contents}
                 \cup {WriteArg("/b", BytesContent(<<255>>))}
            ELSE {WriteArg("/a", BytesContent(<<65>>))}
      [] o = "read" ->
            IF scenario = "files"
            THEN {ReadArg(p, m) : p \in Paths, m \in {None, Some(1)}}
            ELSE {ReadArg("/a", None)}
      [] OTHER -> {NoArg}

Request(method, path, kind, content) ==
    [method |-> method, path |-> path, kind |-> kind, content |-> content]

NoRequest == Request("", <<>>, "none", NoValue)

\* Faulty variant of CreatePayload: both optional keys are always sent.
CreatePayloadWithNulls(a) ==
    [type |-> "dict", has |-> {"image", "ttl_seconds", "workspace_id"},
     image |-> a.image, ttl_seconds |-> a.ttl_seconds, workspace_id |-> a.workspace_id]

\* The `payload` dict of create_session: a key of an optional argument is
\* added only when the argument is not None.
CreatePayload(a) ==
    [type |-> "dict",
     has |-> {"image"}
             \cup (IF a.ttl_seconds # None THEN {"ttl_seconds"} ELSE {})
             \cup (IF a.workspace_id # None THEN {"workspace_id"} ELSE {}),
     image |-> a.image, ttl_seconds |-> a.ttl_seconds, workspace_id |-> a.workspace_id]

ExecPayload(a) ==
    [type |-> "dict", has |-> {"cmd", "timeout_ms", "raw_output"}, cmd |-> a.cmd,
     timeout_ms |-> 30000, raw_output |-> FALSE]

WritePayload(a) ==
    [type |-> "dict", has |-> {"path", "content_base64"}, path |-> a.path,
     content_base64 |-> B64Encode(ContentBytes(a.content))]

ReadParams(a) ==
    [type |-> "dict",
     has |-> {"path"} \cup (IF a.max_bytes # None THEN {"max_bytes"} ELSE {}),
     path |-> a.path, max_bytes |-> a.max_bytes]

\* The name upload sends the file under.
UploadName(a) ==
    IF a.file \in {"stream_named", "stream_unnamed"}
    THEN (IF a.filename # "" THEN a.filename ELSE "s.bin")
    ELSE "f.bin"

UploadForm(a) ==
    [type |-> "dict", has |-> {"path", "file"}, path |-> "/workspace",
     file |-> UploadName(a)]

\* Faulty variant of RequestOf: every operation asks for the list of sessions.
RequestOfListing(o, a) ==
    Request("GET", <<"/v1/sessions">>, "none", NoValue)

\* The one HTTP request operation o makes with arguments a.
RequestOf(o, a) ==
    CASE o = "create_session" -> Request("POST", <<"/v1/sessions">>, "json", CreatePayload(a))
      [] o = "get_session" -> Request("GET", <<"/v1/sessions/", a.session_id>>, "none", NoValue)
      [] o = "list_sessions" -> Request("GET", <<"/v1/sessions">>, "none", NoValue)
      [] o = "list_workspaces" -> Request("GET", <<"/v1/workspaces">>, "none", NoValue)
      [] o = "delete_workspace" ->
            Request("DELETE", <<"/v1/workspaces/", a.workspace_id>>, "none", NoValue)
      [] o = "exec" ->
            Request("POST", <<"/v1/sessions/", SessionId, "/exec">>, "json", ExecPayload(a))
      [] o = "exec_stream" ->
            Request("POST", <<"/v1/sessions/", SessionId, "/exec/stream">>, "json",
                    ExecPayload(a))
      [] o = "write" ->
            Request("POST", <<"/v1/sessions/", SessionId, "/fs/write">>, "json",
                    WritePayload(a))
      [] o = "read" ->
            Request("GET", <<"/v1/sessions/", SessionId, "/fs/read">>, "params",
                    ReadParams(a))
      [] o = "upload" ->
            Request("POST", <<"/v1/sessions/", SessionId, "/fs/upload">>, "multipart",
                    UploadForm(a))
      [] o = "stats" ->
            Request("GET", <<"/v1/sessions/", SessionId, "/stats">>, "none", NoValue)
      [] o = "info" -> Request("GET", <<"/v1/sessions/", SessionId>>, "none", NoValue)
      [] o = "destroy" -> Request("DELETE", <<"/v1/sessions/", SessionId>>, "none", NoValue)
      [] OTHER -> NoRequest

\* The server's write: it stores the base64-decoded content under the path.
ServerAccepts(req) ==
    req.kind = "json" /\ "content_base64" \in req.content.has
        => B64Decode(req.content.content_base64).raise = NoError

ServerWrite(fs, req) ==
    [fs EXCEPT ![req.content.path] = Some(B64Decode(req.content.content_base64).value)]

The(x) == CHOOSE v \in x : TRUE

\* The documents the server answers a read with: the stored bytes, cut to
\* max_bytes when given, base64-encoded, with the truncation flag when
\* max_bytes limited the read; `path` may be left out, and so may a flag
\* that is false.
ServerRead(fs, req) ==
    IF fs[req.content.path] = None THEN {}
    ELSE LET b == The(fs[req.content.path])
             m == Get(req.content, "max_bytes", None)
             shown == IF m = None THEN b ELSE Take(b, The(m))
             cut == Len(shown) < Len(b)
         IN  { [type |-> "dict", has |-> h, content_base64 |-> B64Encode(shown),
                path |-> req.content.path, truncated |-> cut] :
                   h \in {{"content_base64", "path", "truncated"},
                          IF cut THEN {"content_base64", "truncated"}
                          ELSE {"content_base64"}} }

FullRecord == SessionRecord(RequiredKeys \cup OptionalKeys, SessionId, Some("ws-1"))

SessionsWrapped(rs) == [type |-> "dict", has |-> {"sessions"}, sessions |-> rs]

WorkspacesWrapped(rs) == [type |-> "dict", has |-> {"workspaces"}, workspaces |-> rs]

\* Bodies of a list_sessions response: a bare array of records, an object
\* holding them under `sessions`, an object without that key.
SessionsDocuments ==
    { List(rs) : rs \in SeqsUpTo(ListedRecords, MaxRecords) }
    \cup { SessionsWrapped(rs) : rs \in SeqsUpTo(ListedRecords, MaxRecords) }
    \cup { [type |-> "dict", has |-> {}, sessions |-> <<>>] }

WorkspacesDocuments ==
    { List(rs) : rs \in SeqsUpTo(WorkspaceRecords, MaxRecords) }
    \cup { WorkspacesWrapped(rs) : rs \in SeqsUpTo(WorkspaceRecords, MaxRecords) }
    \cup { [type |-> "dict", has |-> {}, workspaces |-> <<>>] }

CreateDocuments ==
    { [type |-> "dict", has |-> {"id"}, id |-> i] : i \in SessionIds }
    \cup { [type |-> "dict", has |-> {}, id |-> SessionId] }

\* Read documents whose content_base64 is no valid base64: "!!!!", "YQ"
\* (padding missing) and "YQ==!".
CorruptReadDocuments ==
    { [type |-> "dict", has |-> {"content_base64"}, content_base64 |-> c,
       path |-> "/a", truncated |-> FALSE] :
          c \in { <<NonAlphabet, NonAlphabet, NonAlphabet, NonAlphabet>>,
                  <<24, 16>>,
                  <<24, 16, Pad, Pad, NonAlphabet>> } }

\* The documents a 2xx JSON body of operation o may decode to. Outside the
\* "sessions" scenario each operation gets the one document of its test
\* (read: what the file server answers, outside "files" also corrupt content);
\* exec, stats and upload are represented by the `result` they decode to.
DocsOf(o, req, fs) ==
    CASE o = "create_session" ->
            IF scenario = "sessions" THEN CreateDocuments
            ELSE {[type |-> "dict", has |-> {"id"}, id |-> SessionId]}
      [] o = "list_sessions" ->
            IF scenario = "sessions" THEN SessionsDocuments
            ELSE {SessionsWrapped(<<FullRecord>>)}
      [] o = "list_workspaces" ->
            IF scenario = "sessions" THEN WorkspacesDocuments
            ELSE {WorkspacesWrapped(<<[type |-> "dict", has |-> {"id"}, id |-> "ws-1",
                                       size_mb |-> 3]>>)}
      [] o = "info" ->
            IF scenario = "sessions" THEN SessionRecords \cup EmptyStringRecords
            ELSE {FullRecord}
      [] o = "read" ->
            IF scenario = "files" THEN ServerRead(fs, req)
            ELSE ServerRead(fs, req) \cup CorruptReadDocuments
      [] OTHER -> {NoValue}

\* The value operation o builds from the decoded document d.
Decode(o, a, d) ==
    CASE o = "create_session" -> CreateSessionDecode(d)
      [] o = "get_session" -> Decoded(SessionObject(a.session_id))
      [] o = "list_sessions" -> ListSessionsDecode(d)
      [] o = "list_workspaces" -> ListWorkspacesDecode(d)
      [] o = "info" -> ParseSessionInfo(d)
      [] o = "read" -> ReadDecode(d, a.path)
      [] o \in {"write", "destroy", "delete_workspace"} -> Decoded([type |-> "NoneType"])
      [] OTHER -> Decoded([type |-> ResultType(o)])

\* Faulty variant of LocalCheck: the Session remembers its destroy() and refuses.
LocalCheckDestroyedFlag(o, a) ==
    IF destroyed /\ o \in SessionOps
    THEN Raised("SandkastenError", "session destroyed")
    ELSE IF o # "upload" THEN NoError
    ELSE IF a.file \in {"stream_named", "stream_unnamed"}
    THEN LET name == IF a.filename # "" THEN a.filename
                     ELSE IF a.file = "stream_named" THEN "s.bin" ELSE ""
         IN  IF name = "" THEN Raised("ValueError", "filename required") ELSE NoError
    ELSE IF a.file = "path_missing" THEN Raised("FileNotFoundError", "File not found")
    ELSE NoError

\* Faulty variant of LocalCheck: a file-like object is uploaded whatever
\* its name is.
LocalCheckNoName(o, a) ==
    IF o # "upload" THEN NoError
    ELSE IF a.file \in {"stream_named", "stream_unnamed"} THEN NoError
    ELSE IF a.file = "path_missing" THEN Raised("FileNotFoundError", "File not found")
    ELSE NoError

\* Faulty variant of LocalCheck: the path is not tested with is_file().
LocalCheckNoIsFile(o, a) ==
    IF o # "upload" THEN NoError
    ELSE IF a.file \in {"stream_named", "stream_unnamed"}
    THEN LET name == IF a.filename # "" THEN a.filename
                     ELSE IF a.file = "stream_named" THEN "s.bin" ELSE ""
         IN  IF name = "" THEN Raised("ValueError", "filename required") ELSE NoError
    ELSE NoError

\* The checks an operation makes before it sends anything: only upload has
\* some (the name of a file-like object, path.is_file()).
LocalCheck(o, a) ==
    IF o # "upload" THEN NoError
    ELSE IF a.file \in {"stream_named", "stream_unnamed"}
    THEN LET name == IF a.filename # "" THEN a.filename
                     ELSE IF a.file = "stream_named" THEN "s.bin" ELSE ""
         IN  IF name = "" THEN Raised("ValueError", "filename required") ELSE NoError
    ELSE IF a.file = "path_missing" THEN Raised("FileNotFoundError", "File not found")
    ELSE NoError

\* Faulty variant of ToClose: the caller's file-like object is remembered in
\* to_close as well.
ToCloseCallerStream(a) ==
    IF a.file \in {"stream_named", "stream_unnamed"} THEN "stream"
    ELSE IF a.file = "path_file" THEN "handle"
    ELSE "none"

\* What the local to_close of upload refers to when the finally block runs:
\* None at first, the handle of path.open("rb") for a path that is a file.
ToClose(a) == IF a.file = "path_file" THEN "handle" ELSE "none"

\* The caller's file-like object when operation o is called with a: open,
\* or "none" when no such object is given.
CallerStream(o, a) ==
    IF o = "upload" /\ a.file \in {"stream_named", "stream_unnamed"} THEN "open" ELSE "none"

\* The caller's file-like object after the finally block of upload, which
\* closes what to_close refers to.
StreamExit(st, a) == IF st = "open" /\ ToClose(a) = "stream" THEN "closed" ELSE st

\* Faulty variant of UploadExit: the handle is closed after the return statement's
\* value is computed, not in a finally block.
UploadExitCloseOnReturn(h, err) == IF h = "open" /\ err = NoError THEN "closed" ELSE h

\* The finally block of upload: to_close.close() when a handle was opened,
\* whatever ends the call (err is the exception, NoError for a return).
UploadExit(h, err) == IF h = "open" THEN "closed" ELSE h

\* Faulty variant of NextPc: a failed exchange is sent again.
NextPcRetry(err) ==
    IF err = NoError THEN "returned"
    ELSE IF IsInstance(err.type, "httpx.HTTPError") THEN "ready"
    ELSE "raised"

\* Where a call goes when its exchange ended with err: no operation catches
\* an exception, so it propagates to the caller.
NextPc(err) == IF err = NoError THEN "returned" ELSE "raised"

\* Faulty variant of MaySendRequest: a per-Session lock serializes the requests.
MaySendRequestLocked(t) == \A u \in Tasks \ {t} : pc[u] # "awaiting"

\* Whether the call of task t may issue its request now: the operations
\* await the HTTP client directly, taking no lock.
MaySendRequest(t) == TRUE

\* What an operation does with the response: raise_for_status(), then the
\* decoding of the body (for exec_stream, of the streamed `lines`).
OnResponse(o, a, status, body, lines) ==
    LET err == RaiseForStatus(status, body) IN
    IF err # NoError THEN [raise |-> err, result |-> NoResult]
    ELSE IF o = "exec_stream"
    THEN LET r == RunStream(lines) IN
         IF r.raise # NoError THEN [raise |-> r.raise, result |-> NoResult]
         ELSE [raise |-> NoError, result |-> Result(ResultType(o), "", r.yielded)]
    ELSE IF Decodes(o) /\ body # "json"
    THEN [raise |-> Raised("json.JSONDecodeError", "Expecting value"), result |-> NoResult]
    ELSE [raise |-> NoError,
          result |-> Result(ResultType(o),
                            IF o = "exec" THEN ServerOutput(a.cmd) ELSE "", <<>>)]

NoManager == [kind |-> "none", workspace_id |-> ""]

\* `async with session:`
SessionManager == [kind |-> "session", workspace_id |-> ""]

\* `async with sandbox_tools_for_workspace(client, workspace_id=w):`
WorkspaceManager(w) == [kind |-> "workspace", workspace_id |-> w]

OpsInit(sc) ==
    /\ scenario = sc
    /\ pc = [t \in Tasks |-> "idle"]
    /\ op = [t \in Tasks |-> ""]
    /\ arg = [t \in Tasks |-> NoArg]
    /\ sent = [t \in Tasks |-> 0]
    /\ resp = [t \in Tasks |-> NoResponse]
    /\ outcome = [t \in Tasks |-> NoError]
    /\ result = [t \in Tasks |-> NoResult]
    /\ handle = [t \in Tasks |-> "none"]
    /\ stream = [t \in Tasks |-> "none"]
    /\ calls = [t \in Tasks |-> 0]
    /\ after_destroy = [t \in Tasks |-> FALSE]
    /\ destroyed = FALSE
    /\ request = [t \in Tasks |-> NoRequest]
    /\ doc = [t \in Tasks |-> NoValue]
    /\ value = [t \in Tasks |-> NoValue]
    /\ files = [p \in Paths |-> None]
    /\ written = [p \in Paths |-> None]
    /\ block = "outside"
    /\ manager = NoManager
    /\ body_exc = NoError
    /\ destroys = 0

\* Whether path.open("rb") may succeed or fail: only upload of a path opens
\* a file.
OpenOutcomes(o, a) == IF o = "upload" /\ a.file = "path_file" THEN BOOLEAN ELSE {TRUE}

\* Task t calls operation o with arguments a: the code of the operation up
\* to its HTTP call. open_ok: path.open("rb") succeeds.
Call(t, o, a, open_ok) ==
    /\ t \in ActiveTasks
    /\ pc[t] \in {"idle", "returned", "raised"}
    /\ calls[t] < MaxCalls
    /\ o \in AllowedOps
    /\ a \in ArgsOf(o)
    /\ calls' = [calls EXCEPT ![t] = @ + 1]
    /\ op' = [op EXCEPT ![t] = o]
    /\ arg' = [arg EXCEPT ![t] = a]
    /\ after_destroy' = [after_destroy EXCEPT ![t] = destroyed]
    /\ sent' = [sent EXCEPT ![t] = 0]
    /\ resp' = [resp EXCEPT ![t] = NoResponse]
    /\ result' = [result EXCEPT ![t] = NoResult]
    /\ request' = [request EXCEPT ![t] = NoRequest]
    /\ doc' = [doc EXCEPT ![t] = NoValue]
    /\ value' = [value EXCEPT ![t] = NoValue]
    /\ written' = IF o = "write" THEN [written EXCEPT ![a.path] = None] ELSE written
    /\ stream' = [stream EXCEPT ![t] = IF LocalCheck(o, a) # NoError
                                      THEN StreamExit(CallerStream(o, a), a)
                                      ELSE CallerStream(o, a)]
    /\ LET err == LocalCheck(o, a)
           opens == o = "upload" /\ a.file = "path_file"
       IN  IF err # NoError
           THEN /\ pc' = [pc EXCEPT ![t] = NextPc(err)]
                /\ outcome' = [outcome EXCEPT ![t] = err]
                /\ handle' = [handle EXCEPT ![t] = UploadExit("none", err)]
           ELSE IF opens /\ ~open_ok
           THEN /\ pc' = [pc EXCEPT ![t] = "raised"]
                /\ outcome' = [outcome EXCEPT ![t] = Raised("PermissionError", "open")]
                /\ handle' = [handle EXCEPT ![t] = UploadExit("none", outcome'[t])]
           ELSE /\ pc' = [pc EXCEPT ![t] = "ready"]
                /\ outcome' = [outcome EXCEPT ![t] = NoError]
                /\ handle' = [handle EXCEPT ![t] = IF opens THEN "open" ELSE "none"]
    /\ UNCHANGED <<scenario, destroyed, files>>
    /\ UNCHANGED streamVars

\* Task t calls any operation of the scenario, with any of its arguments.
CallAny(t) ==
    /\ scenario # "context"
    /\ UNCHANGED ctxVars
    /\ \E o \in AllowedOps :
          \E a \in ArgsOf(o) :
              \E open_ok \in OpenOutcomes(o, a) : Call(t, o, a, open_ok)

\* The call hands its one request to the HTTP client and awaits the response.
Send(t) ==
    /\ pc[t] = "ready"
    /\ MaySendRequest(t)
    /\ pc' = [pc EXCEPT ![t] = "awaiting"]
    /\ sent' = [sent EXCEPT ![t] = @ + 1]
    /\ request' = [request EXCEPT ![t] = RequestOf(op[t], arg[t])]
    /\ destroys' = IF block # "outside" /\ op[t] = "destroy" THEN destroys + 1
                   ELSE destroys
    /\ UNCHANGED <<scenario, op, arg, resp, outcome, result, handle, stream, calls,
                   after_destroy, destroyed, doc, value, files, written>>
    /\ UNCHANGED <<block, manager, body_exc>>
    /\ UNCHANGED streamVars

\* The awaited exchange ends with the exception err.
Fails(t, err) ==
    /\ pc[t] = "awaiting"
    /\ pc' = [pc EXCEPT ![t] = NextPc(err)]
    /\ outcome' = [outcome EXCEPT ![t] = err]
    /\ handle' = [handle EXCEPT ![t] = UploadExit(@, err)]
    /\ stream' = [stream EXCEPT ![t] = StreamExit(@, arg[t])]
    /\ UNCHANGED <<scenario, op, arg, sent, resp, result, calls, after_destroy,
                   destroyed, request, doc, value, files, written>>
    /\ UNCHANGED ctxVars
    /\ UNCHANGED streamVars

\* No HTTP response is obtained (connection, DNS, timeout).
TransportFailure(t) == Fails(t, Raised("httpx.TransportError", "connect"))

\* The caller cancels the task while the request is awaited.
Cancel(t) == Fails(t, Raised("asyncio.CancelledError", ""))

\* The line streams a response to task t may carry.
ResponseStreams(t) == IF op[t] = "exec_stream" THEN StreamSamples ELSE {<<>>}

\* The documents the body of a response to task t may decode to: NoValue
\* when the body is no JSON or the status no success.
ResponseDocuments(t, status, body) ==
    IF pc[t] = "awaiting" /\ IsSuccess(status) /\ body = "json"
    THEN DocsOf(op[t], request[t], files)
    ELSE {NoValue}

\* The response arrives and the rest of the operation runs: the status
\* check, then the decoding of the document d into the returned value.
Response(t, status, body, lines, d) ==
    /\ pc[t] = "awaiting"
    /\ lines \in ResponseStreams(t)
    /\ d \in ResponseDocuments(t, status, body)
    /\ IsSuccess(status) => ServerAccepts(request[t])
    /\ resp' = [resp EXCEPT ![t] = [status |-> status, body |-> body]]
    /\ doc' = [doc EXCEPT ![t] = d]
    /\ stream' = [stream EXCEPT ![t] = StreamExit(@, arg[t])]
    /\ files' = IF IsSuccess(status) /\ op[t] = "write"
                THEN ServerWrite(files, request[t])
                ELSE files
    /\ LET r == OnResponse(op[t], arg[t], status, body, lines)
           v == IF r.raise # NoError THEN Failed(r.raise) ELSE Decode(op[t], arg[t], d)
       IN
         /\ pc' = [pc EXCEPT ![t] = NextPc(v.raise)]
         /\ outcome' = [outcome EXCEPT ![t] = v.raise]
         /\ result' = [result EXCEPT ![t] = IF v.raise = NoError THEN r.result
                                            ELSE NoResult]
         /\ value' = [value EXCEPT ![t] = v.value]
         /\ handle' = [handle EXCEPT ![t] = UploadExit(@, v.raise)]
         /\ destroyed' = (destroyed \/ (op[t] = "destroy" /\ v.raise = NoError))
         /\ written' = IF op[t] = "write" /\ v.raise = NoError
                       THEN [written EXCEPT ![arg[t].path] =
                                 Some(ContentBytes(arg[t].content))]
                       ELSE written
    /\ UNCHANGED <<scenario, op, arg, sent, calls, after_destroy, request>>
    /\ UNCHANGED ctxVars
    /\ UNCHANGED streamVars

\* ------------------------------------------------------------------------
\* `async with` blocks
\* ------------------------------------------------------------------------
\* The operations the body of a block calls on its session.
BodyOps == {"exec", "read"}

\* Faulty variant of AExit: the session is destroyed only when the block
\* ended without an exception.
AExitOnNormalEnd(exc) == IF exc = NoError THEN "destroy" ELSE "propagate"

\* Session.__aexit__(*args): `await self.destroy()`, whatever the exception
\* information in args is.
AExit(exc) == "destroy"

\* Faulty variant of WorkspaceExit: the tools are built before the try
\* statement is entered.
WorkspaceExitToolsBeforeTry(stage, exc) ==
    IF stage = "build" /\ exc # NoError THEN "propagate" ELSE "destroy"

\* The finally block of sandbox_tools_for_workspace, which covers both the
\* building of the tools and the yield: `await session.destroy()`.
WorkspaceExit(stage, exc) == "destroy"

\* __aenter__ of a Session: `return self`.
EnterSession(t) ==
    /\ scenario = "context"
    /\ t \in ActiveTasks
    /\ block = "outside"
    /\ block' = "body"
    /\ manager' = SessionManager
    /\ UNCHANGED <<body_exc, destroys>>
    /\ UNCHANGED callVars
    /\ UNCHANGED streamVars

\* Entering sandbox_tools_for_workspace(client, w, ttl_seconds=ttl): the
\* generator runs up to its `await client.create_session(...)`.
EnterWorkspace(t, w, ttl) ==
    /\ scenario = "context"
    /\ block = "outside"
    /\ Call(t, "create_session", CreateArg("python", ttl, Some(w)), TRUE)
    /\ block' = "creating"
    /\ manager' = WorkspaceManager(w)
    /\ UNCHANGED <<body_exc, destroys>>

\* The block is left at `stage` with the exception exc (NoError: normal
\* end): the exit code of the manager runs.
Leave(t, stage, exc) ==
    LET what == IF manager.kind = "session" THEN AExit(exc)
                ELSE WorkspaceExit(stage, exc)
    IN  /\ body_exc' = exc
        /\ UNCHANGED <<manager, destroys>>
        /\ IF what = "destroy"
           THEN /\ Call(t, "destroy", NoArg, TRUE)
                /\ block' = "exiting"
           ELSE /\ block' = "skipped"
                /\ UNCHANGED callVars
                /\ UNCHANGED streamVars

\* create_session returned: create_sandkasten_tools(session) returns the
\* tools and the generator yields (ok), or raises ImportError when the
\* agents package is missing.
BuildTools(t, ok) ==
    /\ block = "creating"
    /\ pc[t] = "returned"
    /\ IF ok
       THEN /\ block' = "body"
            /\ UNCHANGED <<manager, body_exc, destroys>>
            /\ UNCHANGED callVars
            /\ UNCHANGED streamVars
       ELSE Leave(t, "build", Raised("ImportError", "OpenAI Agents SDK is required"))

\* The body of the block calls an operation of the session.
BodyCall(t) ==
    /\ block = "body"
    /\ calls[t] < MaxCalls - 1
    /\ UNCHANGED ctxVars
    /\ \E o \in BodyOps : \E a \in ArgsOf(o) : Call(t, o, a, TRUE)

\* The exceptions that may leave the body now: none, one raised by the
\* body's own code, the one the last call raised.
BodyExceptions(t) ==
    {NoError, Raised("RuntimeError", "body")}
    \cup (IF pc[t] = "raised" THEN {outcome[t]} ELSE {})

\* The body ends, normally or by an exception.
LeaveBody(t) ==
    /\ block = "body"
    /\ pc[t] \in {"idle", "returned", "raised"}
    /\ \E exc \in BodyExceptions(t) : Leave(t, "body", exc)

\* ------------------------------------------------------------------------
\* Properties of the operations
\* ------------------------------------------------------------------------
Finished(t) == pc[t] \in {"returned", "raised"}

Non2xx(t) == resp[t] # NoResponse /\ ~IsSuccess(resp[t].status)

\* The call ended before its HTTP call: a failed argument check of upload,
\* or a file that could not be opened.
FailedLocally(t) ==
    outcome[t].type \in {"ValueError", "FileNotFoundError", "PermissionError"}

\* C5 as claimed: a non-2xx response makes every operation fail with a
\* SandkastenAPIError carrying the status code and the raw body, and no
\* typed result is returned.
C5_Non2xxRaisesAPIError ==
    \A t \in Tasks :
        Non2xx(t) =>
            /\ pc[t] = "raised"
            /\ IsInstance(outcome[t].type, "SandkastenAPIError")
            /\ outcome[t].status_code = resp[t].status
            /\ outcome[t].response_body = resp[t].body
            /\ result[t] = NoResult

\* C7: a call sends at most one HTTP request, exactly one once it is past
\* its local checks, none when they fail; a failure reaches the caller when
\* it first occurs, and nothing is sent again.
C7_OneRequestPerCall ==
    \A t \in Tasks :
        /\ sent[t] <= 1
        /\ pc[t] \in {"awaiting", "returned"} => sent[t] = 1
        /\ pc[t] = "raised" => sent[t] = (IF FailedLocally(t) THEN 0 ELSE 1)
        /\ outcome[t] # NoError => pc[t] = "raised"
        /\ Non2xx(t) => pc[t] = "raised"

\* C7 witness: a request failed with a non-2xx status and was sent once.
C7_Witness ==
    /\ pc["t1"] = "raised"
    /\ outcome["t1"].type = "httpx.HTTPStatusError"
    /\ sent["t1"] = 1

\* C8: an operation called on the Session after a destroy() that returned
\* still sends its request (nothing is refused for being destroyed), and a
\* non-2xx answer makes it fail with the status error for that answer.
C8_AfterDestroyStillSends ==
    \A t \in Tasks :
        (after_destroy[t] /\ op[t] \in SessionOps /\ Finished(t)) =>
            /\ ~FailedLocally(t) => sent[t] = 1
            /\ Non2xx(t) =>
                  /\ pc[t] = "raised"
                  /\ outcome[t] = StatusError(resp[t].status, resp[t].body)

\* C8 witness: exec after destroy was sent and answered 404.
C8_Witness ==
    /\ destroyed
    /\ after_destroy["t1"]
    /\ op["t1"] = "exec"
    /\ sent["t1"] = 1
    /\ pc["t1"] = "raised"
    /\ outcome["t1"].status_code = 404

\* C9: a call that is ready to send is never held back by another call of
\* the same Session, whatever that one is doing, and an exec that returns
\* carries the output of its own command.
C9_NotSerialized ==
    \A t \in ActiveTasks :
        /\ pc[t] = "ready" => ENABLED Send(t)
        /\ (pc[t] = "returned" /\ op[t] = "exec") =>
              result[t] = Result("ExecResult", ServerOutput(arg[t].cmd), <<>>)

\* C9 witness: two exec requests of one Session are in flight together.
C9_Witness ==
    /\ pc["t1"] = "awaiting" /\ op["t1"] = "exec" /\ arg["t1"].cmd = "pwd"
    /\ pc["t2"] = "awaiting" /\ op["t2"] = "exec" /\ arg["t2"].cmd = "ls"

\* C10: when upload of a path has ended, by return or by any exception
\* (status error, transport error, decoding error, cancellation), the
\* handle it opened is closed.
C10_UploadClosesHandle ==
    \A t \in Tasks :
        /\ (op[t] = "upload" /\ Finished(t)) => handle[t] # "open"
        /\ (op[t] = "upload" /\ Finished(t) /\ arg[t].file = "path_file"
              /\ outcome[t].type # "PermissionError") => handle[t] = "closed"
        /\ handle[t] = "open" => (op[t] = "upload" /\ pc[t] \in {"ready", "awaiting"})

\* C10 witness: an upload cancelled while awaited has closed its handle.
C10_Witness ==
    /\ op["t1"] = "upload"
    /\ pc["t1"] = "raised"
    /\ outcome["t1"].type = "asyncio.CancelledError"
    /\ handle["t1"] = "closed"

\* C11: upload of a file-like object that has no name, with no filename
\* given, raises ValueError and sends no request.
C11_UnnamedStreamRejected ==
    \A t \in Tasks :
        (op[t] = "upload" /\ arg[t].file = "stream_unnamed" /\ arg[t].filename = "") =>
            /\ pc[t] = "raised"
            /\ outcome[t].type = "ValueError"
            /\ sent[t] = 0
            /\ resp[t] = NoResponse

\* C11 witness: such an upload was called.
C11_Witness ==
    /\ op["t1"] = "upload"
    /\ arg["t1"] = Arg("", "stream_unnamed", "")
    /\ pc["t1"] = "raised"

\* The same records in the other shape of a list_sessions body: a bare
\* array for an object with `sessions`, and the reverse.
OtherShape(d) ==
    IF d.type = "list" THEN SessionsWrapped(d.items) ELSE List(Get(d, "sessions", <<>>))

\* A finished list_sessions call that got a 2xx body in one of the two shapes.
ListedSessions(t) ==
    /\ op[t] = "list_sessions"
    /\ Finished(t)
    /\ doc[t] # NoValue
    /\ doc[t].type = "list" \/ "sessions" \in doc[t].has

\* C13 as claimed: list_sessions ends the same way, with the same list of
\* SessionInfo, whether the records come as a bare array or under `sessions`.
C13_SameListForBothShapes ==
    \A t \in Tasks :
        ListedSessions(t) =>
            [raise |-> outcome[t], value |-> value[t]]
                = ListSessionsDecode(OtherShape(doc[t]))

\* A listed record, all of whose required fields are present.
WellFormed(r) == RequiredKeys \subseteq r.has

\* C14 as claimed: list_sessions returns one SessionInfo per record even when
\* records lack container_id, last_activity or workspace_id, and an absent
\* field is None in the SessionInfo.
C14_AbsentOptionalIsNone ==
    \A t \in Tasks :
        ( /\ ListedSessions(t)
          /\ doc[t].type = "dict"
          /\ \A i \in 1..Len(doc[t].sessions) : WellFormed(doc[t].sessions[i]) ) =>
            /\ pc[t] = "returned"
            /\ Len(value[t].items) = Len(doc[t].sessions)
            /\ \A i \in 1..Len(doc[t].sessions) :
                   /\ value[t].items[i].id = doc[t].sessions[i].id
                   /\ \A k \in OptionalKeys \ doc[t].sessions[i].has :
                          value[t].items[i][k] = None

\* C15: Session.info on a 2xx record that has the required fields returns a
\* SessionInfo whatever optional fields are missing: an absent field is None
\* (never the empty string) and a field present with a non-empty value keeps it.
C15_InfoOptionalFields ==
    \A t \in Tasks :
        ( /\ op[t] = "info"
          /\ Finished(t)
          /\ doc[t] # NoValue
          /\ WellFormed(doc[t]) ) =>
            /\ pc[t] = "returned"
            /\ value[t].type = "SessionInfo"
            /\ \A k \in OptionalKeys :
                   /\ k \notin doc[t].has => value[t][k] = None
                   /\ (k \in doc[t].has /\ doc[t][k] \notin {None, Some("")}) =>
                          value[t][k] = doc[t][k]

\* C15 witness: info returned for a record with none of the optional fields.
C15_Witness ==
    /\ op["t1"] = "info"
    /\ pc["t1"] = "returned"
    /\ doc["t1"].has = RequiredKeys
    /\ value["t1"].container_id = None

\* C16: create_session answered 2xx with a body that has an `id` returns a
\* Session bound to that id, having sent one request, the POST to /v1/sessions.
C16_CreateReturnsBodyId ==
    \A t \in Tasks :
        ( /\ op[t] = "create_session"
          /\ Finished(t)
          /\ doc[t] # NoValue
          /\ "id" \in doc[t].has ) =>
            /\ pc[t] = "returned"
            /\ value[t] = [type |-> "Session", id |-> doc[t].id]
            /\ sent[t] = 1
            /\ request[t].method = "POST"
            /\ request[t].path = <<"/v1/sessions">>

\* C16 witness: the server named the new session "s2".
C16_Witness ==
    /\ op["t1"] = "create_session"
    /\ pc["t1"] = "returned"
    /\ doc["t1"].id = "s2"
    /\ value["t1"].id = "s2"

\* C17: the body create_session sends always has `image`, has `ttl_seconds`
\* (`workspace_id`) exactly when the argument is not None, and holds no null.
C17_OptionalArgumentsOmitted ==
    \A t \in Tasks :
        (op[t] = "create_session" /\ sent[t] >= 1) =>
            LET body == request[t].content IN
            /\ request[t].kind = "json"
            /\ "image" \in body.has
            /\ body.image = arg[t].image
            /\ "ttl_seconds" \in body.has <=> arg[t].ttl_seconds # None
            /\ "workspace_id" \in body.has <=> arg[t].workspace_id # None
            /\ \A k \in body.has \ {"image"} : body[k] # None /\ body[k] = arg[t][k]

\* C17 witness: a request was sent with a workspace_id and no ttl_seconds.
C17_Witness ==
    /\ op["t1"] = "create_session"
    /\ sent["t1"] = 1
    /\ arg["t1"].ttl_seconds = None
    /\ arg["t1"].workspace_id = Some("ws-1")
    /\ request["t1"].content.has = {"image", "workspace_id"}

\* C18: get_session(id) sends one GET for that id; a Session is returned
\* only after a 2xx answer and is bound to id; a failed GET returns nothing.
C18_GetSessionVerifiesFirst ==
    \A t \in Tasks :
        op[t] = "get_session" =>
            /\ sent[t] <= 1
            /\ sent[t] = 1 =>
                   /\ request[t].method = "GET"
                   /\ request[t].path = <<"/v1/sessions/", arg[t].session_id>>
            /\ Finished(t) => sent[t] = 1
            /\ value[t] # NoValue =>
                   /\ pc[t] = "returned"
                   /\ IsSuccess(resp[t].status)
                   /\ value[t] = [type |-> "Session", id |-> arg[t].session_id]
            /\ (Finished(t) /\ ~IsSuccess(resp[t].status)) =>
                   /\ pc[t] = "raised"
                   /\ value[t] = NoValue
            /\ pc[t] = "returned" => value[t] # NoValue

\* C18 witness: get_session("s2") returned after a 200.
C18_Witness ==
    /\ op["t1"] = "get_session"
    /\ pc["t1"] = "returned"
    /\ arg["t1"].session_id = "s2"
    /\ resp["t1"].status = 200
    /\ value["t1"].id = "s2"

\* C19 as claimed: list_workspaces returns one WorkspaceInfo per record of
\* `workspaces`, in order, each with the record's id.
C19_WorkspaceInfoPerRecord ==
    \A t \in Tasks :
        ( /\ op[t] = "list_workspaces"
          /\ Finished(t)
          /\ doc[t] # NoValue
          /\ doc[t].type = "dict"
          /\ "workspaces" \in doc[t].has ) =>
            /\ pc[t] = "returned"
            /\ Len(value[t].items) = Len(doc[t].workspaces)
            /\ \A i \in 1..Len(doc[t].workspaces) :
                   /\ value[t].items[i].type = "WorkspaceInfo"
                   /\ value[t].items[i].id = doc[t].workspaces[i].id

\* C20: a read without max_bytes of a path whose last write returned, with
\* no write to the path started since, returns exactly the bytes written.
C20_WriteReadRoundTrip ==
    \A t \in Tasks :
        ( /\ op[t] = "read"
          /\ pc[t] = "returned"
          /\ arg[t].max_bytes = None
          /\ written[arg[t].path] # None ) =>
            /\ value[t].type = "ReadResult"
            /\ Some(value[t].content) = written[arg[t].path]

\* C20 witness: the two bytes written to "/a" came back (one padded group).
C20_Witness ==
    /\ op["t1"] = "read"
    /\ pc["t1"] = "returned"
    /\ arg["t1"] = [path |-> "/a", max_bytes |-> None]
    /\ written["/a"] = Some(<<255, 65>>)
    /\ value["t1"].content = <<255, 65>>

\* C21: read(path, max_bytes=N) of a file longer than N bytes returns
\* truncated = TRUE and at most N bytes; of a file of at most N bytes it
\* returns truncated = FALSE and the whole content. The flag returned is the
\* server's, FALSE when the document has none.
C21_ReadTruncation ==
    \A t \in Tasks :
        ( /\ op[t] = "read"
          /\ pc[t] = "returned"
          /\ arg[t].max_bytes # None ) =>
            LET b == The(files[arg[t].path])
                n == The(arg[t].max_bytes)
            IN  /\ Len(b) > n => (value[t].truncated /\ Len(value[t].content) <= n)
                /\ Len(b) <= n => (~value[t].truncated /\ value[t].content = b)
                /\ value[t].truncated =
                       (IF "truncated" \in doc[t].has THEN doc[t].truncated ELSE FALSE)

\* C21 witness: a file of three bytes read with max_bytes = 1.
C21_Witness ==
    /\ op["t1"] = "read"
    /\ pc["t1"] = "returned"
    /\ arg["t1"] = [path |-> "/a", max_bytes |-> Some(1)]
    /\ Len(The(files["/a"])) = 3
    /\ value["t1"].truncated
    /\ Len(value["t1"].content) = 1

\* s is valid base64 text: only characters of the alphabet, whole groups of
\* four, padding only at the end of the last group.
ValidBase64(s) ==
    /\ Len(s) % 4 = 0
    /\ \A i \in 1..Len(s) :
          /\ s[i] # NonAlphabet
          /\ s[i] = Pad => (i >= Len(s) - 1 /\ \A j \in i..Len(s) : s[j] = Pad)

\* C22 as claimed: a 2xx read response whose content_base64 is no valid
\* base64 makes read fail with a decoding error that is no API error; no
\* ReadResult is returned.
C22_InvalidBase64Raises ==
    \A t \in Tasks :
        ( /\ op[t] = "read"
          /\ Finished(t)
          /\ doc[t] # NoValue
          /\ ~ValidBase64(doc[t].content_base64) ) =>
            /\ pc[t] = "raised"
            /\ IsInstance(outcome[t].type, "ValueError")
            /\ ~IsInstance(outcome[t].type, "httpx.HTTPError")
            /\ ~IsInstance(outcome[t].type, "SandkastenAPIError")
            /\ value[t] = NoValue

\* The type named by the last `event:` line of lines, "" when there is none.
LastEventType(lines) ==
    LET events == {i \in 1..Len(lines) : lines[i].kind = "event"} IN
    IF events = {} THEN ""
    ELSE lines[CHOOSE i \in events : \A j \in events : j <= i].etype

\* The step from the current state runs the loop body on one more line.
LineStep == s_pc = "streaming" /\ Len(received') = Len(received) + 1

NewLine == received'[Len(received')]

\* C23: the tracked event type is "" before the first line and is always
\* the type of the last `event:` line received, whatever blank, data or
\* other lines followed it; a data line with a JSON object is handled as
\* that type, and nothing is raised for a missing event type.
C23_DispatchByLastEvent ==
    /\ event_type = LastEventType(received)
    /\ [][ /\ event_type' = LastEventType(received')
           /\ (LineStep /\ NewLine.kind = "data" /\ NewLine.payload.kind = "object") =>
                  LET et == LastEventType(received) IN
                  /\ et = "chunk" =>
                         /\ Len(yielded') = Len(yielded) + 1
                         /\ ~yielded'[Len(yielded')].done
                         /\ s_outcome' = NoError
                  /\ et = "done" =>
                         /\ Len(yielded') = Len(yielded) + 1
                         /\ yielded'[Len(yielded')].done
                         /\ s_outcome' = NoError
                  /\ et = "error" =>
                         /\ yielded' = yielded
                         /\ s_outcome'.type = "SandkastenStreamError"
                  /\ s_outcome'.type \notin {"UnboundLocalError", "NameError"} ]_vars

\* C23 witness: a chunk was yielded for a data line that follows its
\* `event: chunk` line after a blank line and an earlier data line.
C23_Witness ==
    /\ Len(received) = 4
    /\ received[1] = EventLine("chunk")
    /\ received[2].kind = "data"
    /\ received[3].kind = "blank"
    /\ received[4].kind = "data"
    /\ Len(yielded) = 2
    /\ event_type = "chunk"

NotBlank(line) == line.kind # "blank"

\* C24: the chunks yielded and the exception raised by the parser are those
\* of the received lines with the blank lines taken out, so two line
\* sequences that differ only in blank lines give the same result.
C24_BlankLinesIgnored ==
    LET r == RunStream(SelectSeq(received, NotBlank)) IN
    /\ yielded = r.yielded
    /\ ~IsInstance(s_outcome.type, "httpx.HTTPError") => s_outcome = r.raise

\* C24 witness: blank lines before, inside and after an event, and the
\* chunk of the event was yielded.
C24_Witness ==
    /\ Len(received) = 4
    /\ received[1].kind = "blank"
    /\ received[2] = EventLine("chunk")
    /\ received[3].kind = "blank"
    /\ received[4].kind = "data"
    /\ Len(yielded) = 1

\* The line of this step is one the parser has no handling for, given that
\* its payload, if it is a data line, passes json.loads when jsonOnly holds.
Unhandled(jsonOnly) ==
    /\ LineStep
    /\ \/ NewLine.kind = "other"
       \/ /\ NewLine.kind = "data"
          /\ event_type \notin {"chunk", "done", "error"}
          /\ jsonOnly => NewLine.payload.kind # "malformed"

Ignored ==
    /\ yielded' = yielded
    /\ s_outcome' = NoError
    /\ s_pc' = "streaming"
    /\ s_open'
    /\ event_type' = event_type

\* C29 as claimed: a data line under an unrecognised or missing event type,
\* and a line that is neither blank nor an event nor a data line, yields
\* nothing, raises nothing, and the parsing goes on.
C29_UnhandledLinesIgnored == [][Unhandled(FALSE) => Ignored]_vars

\* C29 amended: the same for data lines whose payload is valid JSON; a
\* data line whose payload is no JSON raises json.JSONDecodeError whatever
\* the tracked event type is.
C29_UnhandledJsonLinesIgnored ==
    [][ /\ Unhandled(TRUE) => Ignored
        /\ (LineStep /\ NewLine.kind = "data" /\ NewLine.payload.kind = "malformed") =>
               /\ s_outcome'.type = "json.JSONDecodeError"
               /\ yielded' = yielded
               /\ s_pc' = "raised" ]_vars

\* C29 witness: a data line of a `ping` event and a line of another kind
\* were passed over, and the stream is still being read.
C29_Witness ==
    /\ Len(received) = 3
    /\ received[1] = EventLine("ping")
    /\ received[2].kind = "data"
    /\ received[2].payload.kind = "object"
    /\ received[3].kind = "other"
    /\ s_pc = "streaming"
    /\ yielded = <<>>

\* C30: upload of a path that is no existing regular file raises
\* FileNotFoundError; no HTTP request was sent and no file handle was opened.
C30_MissingPathFailsBeforeRequest ==
    \A t \in Tasks :
        (op[t] = "upload" /\ arg[t].file = "path_missing") =>
            /\ pc[t] = "raised"
            /\ outcome[t] = Raised("FileNotFoundError", "File not found")
            /\ sent[t] = 0
            /\ request[t] = NoRequest
            /\ resp[t] = NoResponse
            /\ handle[t] = "none"

\* C30 witness: upload of a missing path, with a filename given, has raised.
C30_Witness ==
    /\ op["t1"] = "upload"
    /\ arg["t1"].file = "path_missing"
    /\ arg["t1"].filename # ""
    /\ pc["t1"] = "raised"
    /\ outcome["t1"].type = "FileNotFoundError"

\* C28: upload never closes a file-like object the caller supplied: while the
\* call runs and after it ended, by return or by any exception, that object
\* is open; the only thing upload closes is the handle it opened for a path.
C28_CallerStreamLeftOpen ==
    \A t \in Tasks :
        /\ stream[t] # "closed"
        /\ (op[t] = "upload" /\ arg[t].file \in {"stream_named", "stream_unnamed"}) =>
              /\ stream[t] = "open"
              /\ handle[t] = "none"
        /\ handle[t] = "closed" => (op[t] = "upload" /\ arg[t].file = "path_file")

\* C28 witness: an upload of a caller's stream failed with a non-2xx status.
C28_Witness ==
    /\ op["t1"] = "upload"
    /\ arg["t1"].file = "stream_named"
    /\ pc["t1"] = "raised"
    /\ outcome["t1"].type = "httpx.HTTPStatusError"
    /\ stream["t1"] = "open"

\* C27: in the SessionInfo that _parse_session_info builds, workspace_id is
\* None when the record has no workspace_id and when it has the empty string,
\* so it is None or a non-empty string; container_id and last_activity
\* present as the empty string stay the empty string.
C27_EmptyWorkspaceIdIsNone ==
    \A t \in Tasks :
        (op[t] = "info" /\ pc[t] = "returned") =>
            /\ value[t].workspace_id # Some("")
            /\ "workspace_id" \notin doc[t].has => value[t].workspace_id = None
            /\ ("workspace_id" \in doc[t].has /\ doc[t].workspace_id = Some("")) =>
                  value[t].workspace_id = None
            /\ \A k \in {"container_id", "last_activity"} :
                  (k \in doc[t].has /\ doc[t][k] = Some("")) => value[t][k] = Some("")

\* C27 witness: info returned for a record whose three optional fields are
\* the empty string.
C27_Witness ==
    /\ op["t1"] = "info"
    /\ pc["t1"] = "returned"
    /\ OptionalKeys \subseteq doc["t1"].has
    /\ doc["t1"].workspace_id = Some("")
    /\ doc["t1"].container_id = Some("")
    /\ doc["t1"].last_activity = Some("")
    /\ value["t1"].workspace_id = None
    /\ value["t1"].container_id = Some("")

\* The DELETE request of Session.destroy.
DestroyRequest == Request("DELETE", <<"/v1/sessions/", SessionId>>, "none", NoValue)

\* The block has been left: its exit code has run to its end.
Left == block \in {"exiting", "skipped"} /\ (block = "exiting" => Finished("t1"))

\* C25: entering `async with session:` sends no request; leaving it, at a
\* normal end of the body or by an exception raised in it, sends one destroy
\* request, the DELETE of the session, and no other.
C25_SessionBlockDestroysOnce ==
    /\ [](manager.kind = "session" =>
            /\ block = "body" => destroys = 0
            /\ block # "skipped"
            /\ block = "exiting" =>
                  /\ op["t1"] = "destroy"
                  /\ destroys = sent["t1"]
                  /\ destroys = (IF pc["t1"] = "ready" THEN 0 ELSE 1)
            /\ Left => (destroys = 1 /\ request["t1"] = DestroyRequest))
    /\ [][(manager'.kind = "session" /\ block = "outside" /\ block' # "outside") =>
              /\ block' = "body"
              /\ UNCHANGED <<pc, sent, request, calls, destroys>>]_vars

\* C25 witness: the body raised after two calls and the block was left with
\* one destroy request sent.
C25_Witness ==
    /\ manager.kind = "session"
    /\ Left
    /\ body_exc = Raised("RuntimeError", "body")
    /\ calls["t1"] = 3
    /\ destroys = 1
    /\ request["t1"] = DestroyRequest

\* C26: sandbox_tools_for_workspace makes one create_session call, with the
\* workspace_id it was given; when that call failed no destroy request is
\* sent; when it returned, the session is destroyed by exactly one destroy
\* request once the context is left, whether the tools could not be built,
\* the body raised or the body ended normally.
C26_WorkspaceSessionDestroyedOnce ==
    /\ [](manager.kind = "workspace" =>
            /\ block = "creating" =>
                  /\ op["t1"] = "create_session"
                  /\ calls["t1"] = 1
                  /\ arg["t1"].workspace_id = Some(manager.workspace_id)
                  /\ sent["t1"] = 1 =>
                        /\ request["t1"].method = "POST"
                        /\ request["t1"].content.workspace_id = Some(manager.workspace_id)
                        /\ "workspace_id" \in request["t1"].content.has
                  /\ destroys = 0
            /\ block = "body" => destroys = 0
            /\ block # "skipped"
            /\ block = "exiting" =>
                  /\ op["t1"] = "destroy"
                  /\ destroys = sent["t1"]
                  /\ destroys = (IF pc["t1"] = "ready" THEN 0 ELSE 1)
            /\ Left => (destroys = 1 /\ request["t1"] = DestroyRequest))
    /\ [][(manager.kind = "workspace" /\ block = "creating" /\ pc["t1"] = "raised") =>
              UNCHANGED <<block, destroys, pc, sent, calls>>]_vars
    /\ [][(calls'["t1"] # calls["t1"] /\ op'["t1"] = "create_session") =>
              (block = "outside" /\ block' = "creating" /\ calls'["t1"] = 1)]_vars

\* C26 witness: building the tools raised and the session was destroyed.
C26_Witness ==
    /\ manager = WorkspaceManager("ws-1")
    /\ Left
    /\ body_exc.type = "ImportError"
    /\ destroys = 1
    /\ request["t1"] = DestroyRequest

\* A create_session of sandbox_tools_for_workspace failed; nothing follows.
C26_CreateFailed ==
    /\ manager.kind = "workspace"
    /\ block = "creating"
    /\ pc["t1"] = "raised"
    /\ destroys = 0

\* ------------------------------------------------------------------------
\* Specifications
\* ------------------------------------------------------------------------
StreamNext ==
    \/ ExecStreamCall
    \/ StreamTransportError
    \/ \E status \in Statuses, body \in Bodies : StreamResponse(status, body)
    \/ \E line \in Lines : ServerLine(line)
    \/ ConsumerNext
    \/ ConsumerClose
    \/ StreamEnd
    \/ StreamReadError

OpsNext ==
    \/ \E t \in Tasks : CallAny(t)
    \/ \E t \in Tasks : Send(t)
    \/ \E t \in Tasks : TransportFailure(t)
    \/ \E t \in Tasks : Cancel(t)
    \/ \E t \in Tasks, status \in Statuses, body \in Bodies :
          \E lines \in ResponseStreams(t), d \in ResponseDocuments(t, status, body) :
              Response(t, status, body, lines, d)

ContextNext ==
    \/ \E t \in Tasks : EnterSession(t)
    \/ \E t \in Tasks, w \in WorkspaceIds, ttl \in {None, Some(60)} : EnterWorkspace(t, w, ttl)
    \/ \E t \in Tasks, ok \in BOOLEAN : BuildTools(t, ok)
    \/ \E t \in Tasks : BodyCall(t)
    \/ \E t \in Tasks : LeaveBody(t)
    \/ \E t \in Tasks : Send(t)
    \/ \E t \in Tasks : TransportFailure(t)
    \/ \E t \in Tasks : Cancel(t)
    \/ \E t \in Tasks, status \in Statuses, body \in Bodies :
          \E lines \in ResponseStreams(t), d \in ResponseDocuments(t, status, body) :
              Response(t, status, body, lines, d)

\* The state before any call: the server behaviour m and the scenario sc
\* are fixed for the run.
Init(m, sc) == StreamInit(m) /\ OpsInit(sc)

\* One exec_stream iteration against a server that sends any lines.
SpecStream == Init("any", "none") /\ [][StreamNext]_vars

\* One exec_stream iteration against a server that sends chunk..done transcripts.
SpecTranscript == Init("transcript", "none") /\ [][StreamNext]_vars

\* One caller making calls one after the other.
Spec == Init("any", "sequential") /\ [][OpsNext]_vars

\* Two callers using one Session at the same time.
SpecConcurrent == Init("any", "concurrent") /\ [][OpsNext]_vars

\* One caller of the operations that return sessions, session records and
\* workspaces, against every response document of the bounded sets.
SpecSessions == Init("any", "sessions") /\ [][OpsNext]_vars

\* One caller writing and reading files of the Session.
SpecFiles == Init("any", "files") /\ [][OpsNext]_vars

\* One caller running one `async with` block, of a Session or of
\* sandbox_tools_for_workspace.
SpecContext == Init("any", "context") /\ [][ContextNext]_vars

====
